---- MODULE Spec2Model ----
(***************************************************************************)
(* State-machine model of the ID card generator (src/src/App.tsx): the     *)
(* React state of IDCardGenerator, DesignTab, DataTab and PrintTab, the    *)
(* event handlers that change it, and the PDF merge loop of generatePDF.   *)
(*                                                                         *)
(* Numbers.  Lengths that the program holds as JavaScript numbers with a   *)
(* fractional part (config.width = 9.5 cm, field.x = 47.5 mm) are held     *)
(* here as integers in tenths: a model value v stands for v / 10.  Adding  *)
(* two lengths and multiplying a length by an integer literal keep the     *)
(* source's formula unchanged under this scaling.  fontSize and dpi are    *)
(* plain integers.                                                         *)
(*                                                                         *)
(* Strings.  JavaScript null is the string Null; a JavaScript value that   *)
(* reaches doc.text is a record [t, v] (see JsStr, JsUndefined, JsObject). *)
(*                                                                         *)
(* Identifiers.  Math.random().toString(36).substr(2, 9) is modelled as    *)
(* drawing an id that was not drawn before (RandomFieldId, RandomPersonId);*)
(* the chance of two draws giving the same nine characters is not          *)
(* modelled.                                                               *)
(***************************************************************************)
EXTENDS Integers, Sequences, FiniteSets, TLC

VARIABLES
    config,          \* CardConfig: [width, height, dpi]
    templates,       \* [front, back]: a data URL or Null
    fields,          \* Field[]
    people,          \* Person[]
    selectedFieldId, \* string | null
    activeSide,      \* 'front' | 'back'
    dragState,       \* DesignTab: <<>> (null) or <<[id, startX, startY, initX, initY]>>
    csvText,         \* DataTab: the import textarea, as parsed lines of cells
    fieldIdsDrawn,   \* number of ids drawn by addField
    personIdsDrawn,  \* number of ids drawn by handleAddPerson / handleBulkUpload
    reads,           \* FileReader reads in flight: sequence of [side, file]
    fileInputs,      \* the two <input type="file">: the file chosen last, or Null
    jspdf,           \* window.jspdf is present
    loading,         \* PrintTab: loading
    run,             \* the merge run in flight: [pc, snap]
    doc,             \* the document handed to doc.save: <<>> or <<pages>>
    last             \* the handler that ran last, with its arguments

vars == <<config, templates, fields, people, selectedFieldId, activeSide,
          dragState, csvText, fieldIdsDrawn, personIdsDrawn, reads, fileInputs,
          jspdf, loading, run, doc, last>>

-----------------------------------------------------------------------------
(* Bounds of the model *)

\* addField is called at most this many times in one behaviour
MaxAddedFields == 1
\* handleAddPerson and handleBulkUpload draw at most this many ids in one behaviour
MaxPersonIds == 3
\* FileReader reads in flight at one time
MaxReads == 2
\* lines of the pasted CSV text
MaxLines == 3
\* comma-separated cells of one CSV line
MaxCells == 2

-----------------------------------------------------------------------------
(* Values *)

Null == "null"

Sides == {"front", "back"}

\* the uploaded files, by the data URL FileReader produces for them
Files == {"data:imgA", "data:imgB"}

DEFAULT_CONFIG == [width |-> 140, height |-> 95, dpi |-> 96]

Person3(id, fullName, role, idNumber) ==
    ("id" :> id) @@ ("Full Name" :> fullName) @@ ("Role" :> role)
        @@ ("ID Number" :> idNumber)

SAMPLE_DATA ==
    << Person3("1", "Alex Johnson", "Staff", "STF-001"),
       Person3("2", "Sarah Connor", "Speaker", "SPK-204"),
       Person3("3", "Mike Chen", "Attendee", "ATT-883") >>

InitialFields ==
    << [id |-> "f1", name |-> "Full Name", x |-> 700, y |-> 400, fontSize |-> 24,
        color |-> "#000000", fontFamily |-> "helvetica", align |-> "center",
        side |-> "front"],
       [id |-> "f2", name |-> "Role", x |-> 700, y |-> 550, fontSize |-> 16,
        color |-> "#2563EB", fontFamily |-> "helvetica", align |-> "center",
        side |-> "front"] >>

RandomFieldId(n) == "rf" \o ToString(n)

RandomPersonId(n) == "rp" \o ToString(n)

\* every id a field can have in the model, and one ("zz") that no field ever has
FieldIdPool == {"f1", "f2", "zz"} \cup {RandomFieldId(n) : n \in 1..MaxAddedFields}

FieldIds(fs) == {fs[i].id : i \in 1..Len(fs)}

PersonIds(ps) == {ps[i]["id"] : i \in 1..Len(ps)}

Idle == [pc |-> "idle"]

Op(name) == [op |-> name]

-----------------------------------------------------------------------------
(* Initial state: the useState initialisers *)

Init ==
    /\ config = DEFAULT_CONFIG
    /\ templates = [front |-> Null, back |-> Null]
    /\ fields = InitialFields
    /\ people = SAMPLE_DATA
    /\ selectedFieldId = Null
    /\ activeSide = "front"
    /\ dragState = <<>>
    /\ csvText = << << [pre |-> 0, core |-> "", post |-> 0] >> >>
    /\ fieldIdsDrawn = 0
    /\ personIdsDrawn = 0
    /\ reads = <<>>
    /\ fileInputs = [front |-> Null, back |-> Null]
    /\ jspdf = FALSE
    /\ loading = FALSE
    /\ run = Idle
    /\ doc = <<>>
    /\ last = Op("init")

-----------------------------------------------------------------------------
(* Design logic: addField, updateField, removeField *)

designVars == <<config, templates, fields, selectedFieldId, activeSide, dragState,
                fieldIdsDrawn, reads, fileInputs>>
dataVars == <<people, csvText, personIdsDrawn>>
printVars == <<jspdf, loading, run, doc>>

NewField(id) ==
    [id |-> id, name |-> "New Field", x |-> config.width * 5, y |-> config.height * 5,
     fontSize |-> 14, color |-> "#000000", fontFamily |-> "helvetica",
     align |-> "left", side |-> activeSide]

AddField ==
    /\ fieldIdsDrawn < MaxAddedFields
    /\ LET newField == NewField(RandomFieldId(fieldIdsDrawn + 1))
       IN  /\ fields' = Append(fields, newField)
           /\ selectedFieldId' = newField.id
           /\ last' = [op |-> "addField", id |-> newField.id]
    /\ fieldIdsDrawn' = fieldIdsDrawn + 1
    /\ UNCHANGED <<config, templates, activeSide, dragState, reads>>
    /\ UNCHANGED <<fileInputs, dataVars, printVars>>

\* { ...f, ...updates }
Spread(f, updates) == updates @@ f

\* a variant that inserts the update when no field has the id
MapFieldsUpsert(fs, id, updates) ==
    IF \E i \in 1..Len(fs) : fs[i].id = id
    THEN [i \in 1..Len(fs) |-> IF fs[i].id = id THEN Spread(fs[i], updates) ELSE fs[i]]
    ELSE Append(fs, Spread([id |-> id], updates))

MapFields(fs, id, updates) ==
    [i \in 1..Len(fs) |-> IF fs[i].id = id THEN Spread(fs[i], updates) ELSE fs[i]]

UpdateField(id, updates) ==
    /\ fields' = MapFields(fields, id, updates)
    /\ last' = [op |-> "updateField", id |-> id, present |-> id \in FieldIds(fields)]
    /\ UNCHANGED <<config, templates, selectedFieldId, activeSide, dragState,
                   fieldIdsDrawn, reads>>
    /\ UNCHANGED <<fileInputs, dataVars, printVars>>

FilterFields(fs, id) == SelectSeq(fs, LAMBDA f : f.id # id)

\* a variant that leaves the selection alone
RemoveSelectionKeep(sel, id) == sel

RemoveSelection(sel, id) == IF sel = id THEN Null ELSE sel

RemoveField(id) ==
    /\ fields' = FilterFields(fields, id)
    /\ selectedFieldId' = RemoveSelection(selectedFieldId, id)
    /\ last' = [op |-> "removeField", id |-> id, present |-> id \in FieldIds(fields),
                wasSelected |-> selectedFieldId = id]
    /\ UNCHANGED <<config, templates, activeSide, dragState, fieldIdsDrawn, reads>>
    /\ UNCHANGED <<fileInputs, dataVars, printVars>>

SetActiveSide(side) ==
    /\ activeSide' = side
    /\ last' = [op |-> "setActiveSide", side |-> side]
    /\ UNCHANGED <<config, templates, fields, selectedFieldId, dragState,
                   fieldIdsDrawn, reads>>
    /\ UNCHANGED <<fileInputs, dataVars, printVars>>

-----------------------------------------------------------------------------
(* Card dimensions and background uploads *)

\* the values typed into the Width and Height inputs (parseFloat(value) || 0), in tenths of a cm
DimensionInputs == {95, 140}

SetConfigWidth(w) ==
    /\ config' = [config EXCEPT !.width = w]
    /\ last' = [op |-> "setConfig", key |-> "width", value |-> w]
    /\ UNCHANGED <<templates, fields, selectedFieldId, activeSide, dragState,
                   fieldIdsDrawn, reads>>
    /\ UNCHANGED <<fileInputs, dataVars, printVars>>

SetConfigHeight(h) ==
    /\ config' = [config EXCEPT !.height = h]
    /\ last' = [op |-> "setConfig", key |-> "height", value |-> h]
    /\ UNCHANGED <<templates, fields, selectedFieldId, activeSide, dragState,
                   fieldIdsDrawn, reads>>
    /\ UNCHANGED <<fileInputs, dataVars, printVars>>

\* handleFileUpload: the change event of a file input, e.target.files[0] being the
\* file just chosen; reader.readAsDataURL(file) starts a read
HandleFileUpload(side, file) ==
    /\ Len(reads) < MaxReads
    /\ fileInputs' = [fileInputs EXCEPT ![side] = file]
    /\ reads' = Append(reads, [side |-> side, file |-> file])
    /\ last' = [op |-> "handleFileUpload", side |-> side, file |-> file]
    /\ UNCHANGED <<config, templates, fields, selectedFieldId, activeSide, dragState,
                   fieldIdsDrawn>>
    /\ UNCHANGED <<dataVars, printVars>>

RemoveAt(s, k) == [i \in 1..(Len(s) - 1) |-> IF i < k THEN s[i] ELSE s[i + 1]]

\* setTemplates(prev => ({ ...prev, [side]: result }))
SetTemplate(prev, side, result) == [prev EXCEPT ![side] = result]

\* reader.onload of the k-th read in flight; reads complete in any order
ReaderOnload(k) ==
    /\ k \in 1..Len(reads)
    /\ templates' = SetTemplate(templates, reads[k].side, reads[k].file)
    /\ reads' = RemoveAt(reads, k)
    /\ last' = [op |-> "reader.onload", side |-> reads[k].side, file |-> reads[k].file]
    /\ UNCHANGED <<config, fields, selectedFieldId, activeSide, dragState, fieldIdsDrawn>>
    /\ UNCHANGED <<fileInputs, dataVars, printVars>>

-----------------------------------------------------------------------------
(* DesignTab: selecting and dragging a field *)

\* e.clientX / e.clientY of the mouse events, in px
PointerCoords == {0, 3, 250}

\* canvasRef.current.clientWidth, in px
ClientWidths == {400, 700}

\* the fields the canvas renders: fields.filter(f => f.side === activeSide)
RenderedFields == {i \in 1..Len(fields) : fields[i].side = activeSide}

HandleMouseDown(i, cx, cy) ==
    /\ i \in RenderedFields
    /\ selectedFieldId' = fields[i].id
    /\ dragState' = << [id |-> fields[i].id, startX |-> cx, startY |-> cy,
                        initX |-> fields[i].x, initY |-> fields[i].y] >>
    /\ last' = [op |-> "handleMouseDown", id |-> fields[i].id]
    /\ UNCHANGED <<config, templates, fields, activeSide, fieldIdsDrawn, reads>>
    /\ UNCHANGED <<fileInputs, dataVars, printVars>>

\* a variant that cuts the fraction off instead of rounding
DragRoundDown(init, dPx, clientWidth, width) ==
    10 * ((init * clientWidth + dPx * width * 10) \div (10 * clientWidth))

\* Math.round(init + (client - start) / pixelScale), pixelScale = clientWidth / (config.width * 10);
\* init and the result in tenths of a mm, Math.round rounding halves up
DragRound(init, dPx, clientWidth, width) ==
    10 * ((2 * (init * clientWidth + dPx * width * 10) + 10 * clientWidth)
            \div (20 * clientWidth))

\* the model follows a drag only while the field stays on the card
OnCard(x, y) == x \in 0..(config.width * 10) /\ y \in 0..(config.height * 10)

HandleMouseMove(cx, cy, clientWidth) ==
    /\ dragState # <<>>
    /\ LET d == dragState[1]
           updates == [x |-> DragRound(d.initX, cx - d.startX, clientWidth, config.width),
                       y |-> DragRound(d.initY, cy - d.startY, clientWidth, config.width)]
       IN  /\ OnCard(updates.x, updates.y)
           /\ fields' = MapFields(fields, d.id, updates)
           /\ last' = [op |-> "updateField", id |-> d.id,
                       present |-> d.id \in FieldIds(fields),
                       clientX |-> cx, clientY |-> cy, clientWidth |-> clientWidth]
    /\ UNCHANGED <<config, templates, selectedFieldId, activeSide, dragState,
                   fieldIdsDrawn, reads>>
    /\ UNCHANGED <<fileInputs, dataVars, printVars>>

HandleMouseUp ==
    /\ dragState # <<>>
    /\ dragState' = <<>>
    /\ last' = Op("handleMouseUp")
    /\ UNCHANGED <<config, templates, fields, selectedFieldId, activeSide,
                   fieldIdsDrawn, reads>>
    /\ UNCHANGED <<fileInputs, dataVars, printVars>>

-----------------------------------------------------------------------------
(* Data logic: the pasted CSV text *)

(* A pasted text is the sequence of its lines (the pieces between "\n"), a  *)
(* line the sequence of its cells (the pieces between ","), and a cell the  *)
(* string core with pre white-space characters before it and post after it; *)
(* core neither starts nor ends with white space.                           *)
Cell(pre, core, post) == [pre |-> pre, core |-> core, post |-> post]

EmptyCell == Cell(0, "", 0)

RawCells == {EmptyCell, Cell(1, "id", 1)}

SeqsUpTo(S, n) == UNION {[1..k -> S] : k \in 1..n}

RawLines == SeqsUpTo(RawCells, MaxCells)

Texts == SeqsUpTo(RawLines, MaxLines)

\* String.prototype.trim on one cell
TrimCell(c) == c.core

\* a line that holds white space only
IsBlankLine(line) == Len(line) = 1 /\ line[1].core = ""

RECURSIVE DropLeadingBlank(_)
DropLeadingBlank(ls) ==
    IF ls = <<>> THEN <<>>
    ELSE IF IsBlankLine(Head(ls)) THEN DropLeadingBlank(Tail(ls))
    ELSE ls

RECURSIVE DropTrailingBlank(_)
DropTrailingBlank(ls) ==
    IF ls = <<>> THEN <<>>
    ELSE IF IsBlankLine(ls[Len(ls)]) THEN DropTrailingBlank(SubSeq(ls, 1, Len(ls) - 1))
    ELSE ls

\* a variant without the trim
TrimTextNone(ls) == ls

\* text.trim(): the white space (line breaks included) at both ends of the text goes
TrimText(ls) ==
    LET kept == DropTrailingBlank(DropLeadingBlank(ls))
    IN  IF kept = <<>> THEN << <<EmptyCell>> >>
        ELSE [i \in 1..Len(kept) |->
                [k \in 1..Len(kept[i]) |->
                    [kept[i][k] EXCEPT
                        !.pre = IF i = 1 /\ k = 1 THEN 0 ELSE @,
                        !.post = IF i = Len(kept) /\ k = Len(kept[i]) THEN 0 ELSE @]]]

\* text.trim().split('\n')
SplitLines(text) == TrimText(text)

\* line.split(',').map(v => v.trim())
SplitTrim(line) == [k \in 1..Len(line) |-> TrimCell(line[k])]

\* person[header] = value
Assign(person, key, value) == (key :> value) @@ person

\* headers.forEach((header, index) => { if (values[index]) person[header] = values[index] })
RECURSIVE ForEachHeader(_, _, _, _)
ForEachHeader(person, headers, values, index) ==
    IF index > Len(headers) THEN person
    ELSE ForEachHeader(
            IF index <= Len(values) /\ values[index] # ""
                THEN Assign(person, headers[index], values[index])
                ELSE person,
            headers, values, index + 1)

\* the loop body for data line i (i = 2 is the first data line), drawing the next id
ParseLine(lines, headers, i, drawn) ==
    ForEachHeader("id" :> RandomPersonId(drawn + i - 1), headers, SplitTrim(lines[i]), 1)

ParsePeople(lines, drawn) ==
    LET headers == SplitTrim(lines[1])
    IN  [j \in 1..(Len(lines) - 1) |-> ParseLine(lines, headers, j + 1, drawn)]

\* the import textarea: setCsvText(e.target.value)
SetCsvText(text) ==
    /\ csvText' = text
    /\ last' = Op("setCsvText")
    /\ UNCHANGED <<people, personIdsDrawn>>
    /\ UNCHANGED <<designVars, printVars>>

\* "Process Data": onBulkUpload(csvText), i.e. handleBulkUpload(csvText).
\* The model follows imports while no more than MaxPersonIds ids have been drawn.
HandleBulkUpload ==
    LET lines == SplitLines(csvText)
    IN  IF Len(lines) < 2
        THEN /\ last' = [op |-> "handleBulkUpload", imported |-> FALSE]
             /\ UNCHANGED <<people, csvText, personIdsDrawn>>
             /\ UNCHANGED <<designVars, printVars>>
        ELSE /\ personIdsDrawn + (Len(lines) - 1) <= MaxPersonIds
             /\ people' = ParsePeople(lines, personIdsDrawn)
             /\ personIdsDrawn' = personIdsDrawn + (Len(lines) - 1)
             /\ last' = [op |-> "handleBulkUpload", imported |-> TRUE]
             /\ UNCHANGED csvText
             /\ UNCHANGED <<designVars, printVars>>

-----------------------------------------------------------------------------
(* DataTab: manual entry, deletion, clear all *)

\* requiredFields: the distinct field names
RequiredFields == {fields[i].name : i \in 1..Len(fields)}

\* the form state newPerson at submit time
NewPersonInputs ==
    { ("Full Name" :> "Ada Lovelace") @@ ("Role" :> "Speaker"),
      ("Full Name" :> "Linus T") @@ ("Role" :> "Staff") @@ ("New Field" :> "x"),
      ("Role" :> "Guest") @@ ("Full Name" :> "") }

\* the browser submits the form only when every "required" input holds a value
FormValid(newPerson) ==
    \A n \in RequiredFields : n \in DOMAIN newPerson /\ newPerson[n] # ""

\* { ...newPerson, id: ... }
HandleAddPerson(newPerson) ==
    /\ FormValid(newPerson)
    /\ personIdsDrawn < MaxPersonIds
    /\ people' = Append(people, ("id" :> RandomPersonId(personIdsDrawn + 1)) @@ newPerson)
    /\ personIdsDrawn' = personIdsDrawn + 1
    /\ last' = Op("handleAddPerson")
    /\ UNCHANGED csvText
    /\ UNCHANGED <<designVars, printVars>>

FilterPeople(ps, id) == SelectSeq(ps, LAMBDA p : p["id"] # id)

DeletePerson(id) ==
    /\ people' = FilterPeople(people, id)
    /\ last' = [op |-> "deletePerson", id |-> id]
    /\ UNCHANGED <<csvText, personIdsDrawn>>
    /\ UNCHANGED <<designVars, printVars>>

\* "Clear All": setPeople([])
ClearAll ==
    /\ people' = <<>>
    /\ last' = Op("clearAll")
    /\ UNCHANGED <<csvText, personIdsDrawn>>
    /\ UNCHANGED <<designVars, printVars>>

-----------------------------------------------------------------------------
(* PDF generation: generatePDF and PrintTab.handleGenerate *)

\* JavaScript values that person[f.name] || f.name can yield
JsStr(s) == [t |-> "string", v |-> s]

JsUndefined == [t |-> "undefined"]

\* a value inherited from Object.prototype (a function or an object), by its key
JsObject(key) == [t |-> "object", v |-> key]

\* the keys every object literal inherits from Object.prototype
ObjectPrototypeKeys ==
    {"constructor", "toString", "toLocaleString", "valueOf", "hasOwnProperty",
     "isPrototypeOf", "propertyIsEnumerable", "__proto__"}

\* person[key]: an own property, else an inherited one, else undefined
GetProp(person, key) ==
    IF key \in DOMAIN person THEN JsStr(person[key])
    ELSE IF key \in ObjectPrototypeKeys THEN JsObject(key)
    ELSE JsUndefined

Truthy(v) == v.t = "object" \/ (v.t = "string" /\ v.v # "")

\* a || b
OrElse(a, b) == IF Truthy(a) THEN a ELSE b

\* const text = person[f.name] || f.name
ResolveText(person, f) == OrElse(GetProp(person, f.name), JsStr(f.name))

\* a variant that converts the position to pixels at 96 dpi (mmToPx)
TextRunInPixels(person, f) ==
    [text |-> ResolveText(person, f), x |-> (f.x * 96 * 10) \div 254,
     y |-> (f.y * 96 * 10) \div 254, fontSize |-> f.fontSize,
     color |-> f.color, fontFamily |-> f.fontFamily, align |-> f.align]

\* setFontSize, setTextColor, setFont, then doc.text(text, f.x, f.y, { align: f.align })
TextRun(person, f) ==
    [text |-> ResolveText(person, f), x |-> f.x, y |-> f.y, fontSize |-> f.fontSize,
     color |-> f.color, fontFamily |-> f.fontFamily, align |-> f.align]

\* a variant without the filter
FieldsOfAnySide(fs, side) == fs

\* fields.filter(f => f.side === side)
FieldsOfSide(fs, side) == SelectSeq(fs, LAMBDA f : f.side = side)

\* ... .forEach(f => { ... doc.text(...) })
TextRuns(person, fs, side) ==
    LET shown == FieldsOfSide(fs, side)
    IN  [k \in 1..Len(shown) |-> TextRun(person, shown[k])]

\* a page as jsPDF makes it: its format, nothing drawn.  side and person record
\* which statement of the loop drew on the page (none for an untouched page).
NewPage(widthMm, heightMm) ==
    [w |-> widthMm, h |-> heightMm, bg |-> "none", runs |-> <<>>,
     side |-> "none", person |-> 0]

\* addImage(template, 'JPEG', 0, 0, widthMm, heightMm), or the white rect
Background(template) == IF template # Null THEN template ELSE "white"

\* draw one side of one person's card on the current (last) page
DrawOnLast(pages, template, runs, side, i) ==
    [pages EXCEPT ![Len(pages)] =
        [@ EXCEPT !.bg = Background(template), !.runs = runs, !.side = side,
                  !.person = i]]

\* fields.some(f => f.side === 'back')
HasBackFields(fs) == \E k \in 1..Len(fs) : fs[k].side = "back"

\* a variant that looks at the back image only
EmitsBackForImageOnly(snap) == snap.templates.back # Null

\* if (templates.back || hasBackFields)
EmitsBack(snap) == snap.templates.back # Null \/ HasBackFields(snap.fields)

\* a variant that adds a page for the first person too
FrontPageAlways(pages, snap, i) ==
    Append(pages, NewPage(snap.config.width * 10, snap.config.height * 10))

\* if (i > 0) doc.addPage([widthMm, heightMm]); here i counts from 1
FrontPage(pages, snap, i) ==
    IF i > 1 THEN Append(pages, NewPage(snap.config.width * 10, snap.config.height * 10))
    ELSE pages

\* a variant that draws the back of a card before its front
MergePersonBackFirst(pages, snap, i) ==
    LET person == snap.people[i]
        first == FrontPage(pages, snap, i)
    IN  IF EmitsBack(snap)
        THEN DrawOnLast(
                Append(DrawOnLast(first, snap.templates.back,
                                  TextRuns(person, snap.fields, "back"), "back", i),
                       NewPage(snap.config.width * 10, snap.config.height * 10)),
                snap.templates.front, TextRuns(person, snap.fields, "front"), "front", i)
        ELSE DrawOnLast(first, snap.templates.front,
                        TextRuns(person, snap.fields, "front"), "front", i)

\* one pass of the for loop, for people[i]
MergePerson(pages, snap, i) ==
    LET person == snap.people[i]
        front == DrawOnLast(FrontPage(pages, snap, i), snap.templates.front,
                            TextRuns(person, snap.fields, "front"), "front", i)
    IN  IF EmitsBack(snap)
        THEN DrawOnLast(
                Append(front, NewPage(snap.config.width * 10, snap.config.height * 10)),
                snap.templates.back, TextRuns(person, snap.fields, "back"), "back", i)
        ELSE front

RECURSIVE MergeLoop(_, _, _)
MergeLoop(pages, snap, i) ==
    IF i > Len(snap.people) THEN pages
    ELSE MergeLoop(MergePerson(pages, snap, i), snap, i + 1)

\* new jsPDF({...}) makes the first page; then the loop; the result goes to doc.save
Merge(snap) ==
    MergeLoop(<< NewPage(snap.config.width * 10, snap.config.height * 10) >>, snap, 1)

\* doc.text is given something that is not a string
HasNonStringText(pages) ==
    \E p \in 1..Len(pages) : \E k \in 1..Len(pages[p].runs) :
        pages[p].runs[k].text.t # "string"

\* what the closure of generatePDF holds: the state of the render the click happened in
Snapshot == [config |-> config, fields |-> fields, people |-> people,
             templates |-> templates]

ButtonDisabledWhileLoadingOnly == loading

\* the Download button: disabled={loading || people.length === 0}
ButtonDisabled == loading \/ Len(people) = 0

\* a click on the Download button.
\* One export is followed at a time (PrintTab is not unmounted while it runs).
HandleGenerate ==
    /\ ~ButtonDisabled
    /\ run.pc = "idle"
    /\ loading' = TRUE
    /\ run' = [pc |-> "timer", snap |-> Snapshot]
    /\ last' = Op("handleGenerate")
    /\ UNCHANGED <<jspdf, doc>>
    /\ UNCHANGED <<designVars, dataVars>>

\* generatePDF from "const { jsPDF } = window.jspdf" on: the loop, then doc.save.
\* jsPDF is not part of the repository: given a text that is not a string, doc.text
\* may throw (the run ends there, nothing is saved) or draw.
MergeInputsLive == Snapshot

\* the config, fields, people and templates that generatePDF reads: those of the
\* render whose onGenerate the pending setTimeout callback captured
MergeInputs == run.snap

MergeAndSave ==
    LET pages == Merge(MergeInputs)
    IN  \/ /\ doc' = << pages >>
           /\ run' = [run EXCEPT !.pc = "saved"]
           /\ last' = Op("doc.save")
        \/ /\ HasNonStringText(pages)
           /\ doc' = doc
           /\ run' = [pc |-> "threw"]
           /\ last' = Op("doc.text throws")

\* the setTimeout callback: onGenerate(), up to its first await
TimerFires ==
    /\ run.pc = "timer"
    /\ IF jspdf
       THEN MergeAndSave
       ELSE /\ run' = [run EXCEPT !.pc = "script"]
            /\ last' = Op("load script")
            /\ UNCHANGED doc
    /\ UNCHANGED <<jspdf, loading>>
    /\ UNCHANGED <<designVars, dataVars>>

\* script.onload: the await in generatePDF resumes
ScriptOnload ==
    /\ run.pc = "script"
    /\ jspdf' = TRUE
    /\ MergeAndSave
    /\ UNCHANGED loading
    /\ UNCHANGED <<designVars, dataVars>>

\* the script fails to load (no network, blocked CDN): the script element gets an
\* error event, for which generatePDF registers no handler; resolve is never called
ScriptError ==
    /\ run.pc = "script"
    /\ run' = [pc |-> "stalled"]
    /\ last' = Op("script error")
    /\ UNCHANGED <<jspdf, loading, doc>>
    /\ UNCHANGED <<designVars, dataVars>>

\* "await onGenerate()" resumes in handleGenerate: setLoading(false)
GenerateReturns ==
    /\ run.pc = "saved"
    /\ loading' = FALSE
    /\ run' = Idle
    /\ doc' = <<>>
    /\ last' = Op("setLoading(false)")
    /\ UNCHANGED jspdf
    /\ UNCHANGED <<designVars, dataVars>>

-----------------------------------------------------------------------------
(* The design surface alone.  A field in the list is updated by dragging it *)
(* (onUpdateField(dragState.id, ...)); updateField is also called with ids *)
(* that are not in the list, and removeField with any id.                  *)

NextFields ==
    \/ AddField
    \/ \E id \in FieldIdPool \ FieldIds(fields) : UpdateField(id, [name |-> ""])
    \/ \E id \in FieldIdPool : RemoveField(id)
    \/ \E side \in Sides : SetActiveSide(side)
    \/ \E i \in 1..Len(fields) : HandleMouseDown(i, 0, 0)
    \/ \E cw \in ClientWidths : HandleMouseMove(250, 0, cw)
    \/ HandleMouseUp

SpecFields == Init /\ [][NextFields]_vars

-----------------------------------------------------------------------------
(* The import alone: handleBulkUpload applied once to every text of the bounds *)

InitImport ==
    /\ config = DEFAULT_CONFIG
    /\ templates = [front |-> Null, back |-> Null]
    /\ fields = InitialFields
    /\ people = SAMPLE_DATA
    /\ selectedFieldId = Null
    /\ activeSide = "front"
    /\ dragState = <<>>
    /\ csvText \in Texts
    /\ fieldIdsDrawn = 0
    /\ personIdsDrawn = 0
    /\ reads = <<>>
    /\ fileInputs = [front |-> Null, back |-> Null]
    /\ jspdf = FALSE
    /\ loading = FALSE
    /\ run = Idle
    /\ doc = <<>>
    /\ last = Op("init")

NextImport == last.op = "init" /\ HandleBulkUpload

SpecImport == InitImport /\ [][NextImport]_vars

-----------------------------------------------------------------------------
(* The attendee table: imports, manual adds, deletions, clear all *)

Line(cells) == [k \in 1..Len(cells) |-> Cell(0, cells[k], 0)]

\* texts pasted into the import box
SampleTexts ==
    { << Line(<<"Name", "Role">>), Line(<<"Ada", "Speaker">>), Line(<<"Linus", "Staff">>) >>,
      << Line(<<"Name", "Role">>) >>,
      << Line(<<"id", "Name">>), Line(<<"7", "Ada">>), Line(<<"7", "Linus">>) >>,
      << Line(<<"Full Name", "Role">>), Line(<<"Grace">>) >> }

NextData ==
    \/ \E text \in SampleTexts : SetCsvText(text)
    \/ HandleBulkUpload
    \/ \E np \in NewPersonInputs : HandleAddPerson(np)
    \/ \E id \in PersonIds(people) : DeletePerson(id)
    \/ ClearAll

SpecData == Init /\ [][NextData]_vars

-----------------------------------------------------------------------------
(* Design, data and export together.  The design is edited between exports; *)
(* while an export waits for its timer or for the script, the table can    *)
(* still be cleared.                                                        *)

NoRunPending == run.pc \in {"idle", "threw"}

NextMerge ==
    \/ NoRunPending /\ AddField
    \/ NoRunPending /\ \E id \in FieldIds(fields) : UpdateField(id, [name |-> "constructor"])
    \/ NoRunPending /\ \E id \in FieldIds(fields) : RemoveField(id)
    \/ NoRunPending /\ \E side \in Sides : SetActiveSide(side)
    \/ NoRunPending /\ reads = <<>> /\ HandleFileUpload("back", "data:imgA")
    \/ NoRunPending /\ \E k \in 1..Len(reads) : ReaderOnload(k)
    \/ NoRunPending /\ \E id \in PersonIds(people) : DeletePerson(id)
    \/ run.pc # "saved" /\ ClearAll
    \/ HandleGenerate
    \/ TimerFires
    \/ ScriptOnload
    \/ GenerateReturns

SpecMerge == Init /\ [][NextMerge]_vars

-----------------------------------------------------------------------------
(* Properties of the merge output, read off the state in which generatePDF  *)
(* has called doc.save: doc holds the pages, run.snap the inputs of the run *)

Saved == run.pc = "saved"

SavedPages == doc[1]

\* the inputs have back content: a back image, or a field with side = back
BackContent(snap) ==
    \/ snap.templates.back # Null
    \/ \E k \in 1..Len(snap.fields) : snap.fields[k].side = "back"

\* the positions in the field list of the fields of one side
IndexesOfSide(fs, side) == {k \in 1..Len(fs) : fs[k].side = side}

\* the n-th smallest element of a set of numbers
NthOf(S, n) == CHOOSE k \in S : Cardinality({j \in S : j < k}) = n - 1

\* the pages of the saved document that were drawn for person i
PagesOf(i, side) ==
    {p \in 1..Len(SavedPages) : SavedPages[p].person = i /\ SavedPages[p].side = side}

\* C1: a merge run over N people saves exactly N pages when there is no back
\* content (no back template, no field with side = back) and exactly 2N pages
\* when there is.
C1_PageCountLaw ==
    Saved =>
        Len(SavedPages) =
            IF BackContent(run.snap) THEN 2 * Len(run.snap.people)
            ELSE Len(run.snap.people)

C1_Witness ==
    /\ Saved
    /\ BackContent(run.snap)
    /\ Len(run.snap.people) = 2
    /\ Len(SavedPages) = 4

\* C2: in one run, person i gets a back page if and only if a back image exists
\* or some field has side = back; the answer is the same for every person.
C2_BackPageIffBackContent ==
    Saved =>
        \A i \in 1..Len(run.snap.people) :
            /\ (PagesOf(i, "back") # {}) <=> BackContent(run.snap)
            /\ (PagesOf(i, "back") # {}) <=> (PagesOf(1, "back") # {})

C2_Witness ==
    /\ Saved
    /\ run.snap.templates.back = Null
    /\ Len(run.snap.people) >= 2
    /\ \A i \in 1..Len(run.snap.people) : PagesOf(i, "back") # {}

\* C3 (as claimed): every text drawn is person[field.name] when the record has
\* that key with a non-empty value, and the field's name otherwise; it is never
\* blank and drawing never fails.
C3_TextIsValueOrFieldName ==
    /\ run.pc # "threw"
    /\ Saved =>
        \A p \in 1..Len(SavedPages) :
            LET page == SavedPages[p]
                person == run.snap.people[page.person]
                idx == IndexesOfSide(run.snap.fields, page.side)
            IN  \A k \in 1..Len(page.runs) :
                    LET f == run.snap.fields[NthOf(idx, k)]
                    IN  /\ page.runs[k].text =
                              IF f.name \in DOMAIN person /\ person[f.name] # ""
                                  THEN JsStr(person[f.name])
                                  ELSE JsStr(f.name)
                        /\ page.runs[k].text # JsStr("")

\* C4: every text run sits at exactly (field.x, field.y), and a run that differs
\* only in config.dpi saves the same pages.
DpiValues == {72, 96, 150, 300}

C4_CoordinatesPassThrough ==
    Saved =>
        /\ \A p \in 1..Len(SavedPages) :
              LET page == SavedPages[p]
                  idx == IndexesOfSide(run.snap.fields, page.side)
              IN  \A k \in 1..Len(page.runs) :
                      /\ page.runs[k].x = run.snap.fields[NthOf(idx, k)].x
                      /\ page.runs[k].y = run.snap.fields[NthOf(idx, k)].y
        /\ \A d \in DpiValues :
              Merge([run.snap EXCEPT !.config.dpi = d]) = SavedPages

C4_Witness ==
    /\ Saved
    /\ run.snap.config.width = 140 /\ run.snap.config.height = 95
    /\ \E k \in 1..Len(run.snap.fields) :
          run.snap.fields[k].x = 700 /\ run.snap.fields[k].y = 400
    /\ \E k \in 1..Len(SavedPages[1].runs) :
          SavedPages[1].runs[k].x = 700 /\ SavedPages[1].runs[k].y = 400

\* C5: the text runs of a front page are exactly the fields with side = front,
\* those of a back page exactly the fields with side = back, each once and in
\* the order of the field list.
C5_RunsFollowFieldOrder ==
    Saved =>
        \A p \in 1..Len(SavedPages) :
            LET page == SavedPages[p]
                person == run.snap.people[page.person]
                idx == IndexesOfSide(run.snap.fields, page.side)
            IN  /\ page.side \in Sides
                /\ Len(page.runs) = Cardinality(idx)
                /\ \A k \in 1..Len(page.runs) :
                      page.runs[k] = TextRun(person, run.snap.fields[NthOf(idx, k)])

C5_Witness ==
    /\ Saved
    /\ \E p, q \in 1..Len(SavedPages) :
          /\ SavedPages[p].side = "front" /\ Len(SavedPages[p].runs) >= 2
          /\ SavedPages[p].runs[1] # SavedPages[p].runs[2]
          /\ SavedPages[q].side = "back" /\ Len(SavedPages[q].runs) >= 1

-----------------------------------------------------------------------------
(* Properties of the bulk import *)

\* the text has at most one line that is not blank: trimmed, it has fewer than 2 lines
FewerThanTwoLines(text) ==
    Cardinality({i \in 1..Len(text) : ~IsBlankLine(text[i])}) <= 1

\* C6: handleBulkUpload of a text with fewer than 2 lines leaves the person
\* table exactly as it was.
C6_MalformedImportIsNoOp ==
    [][(last'.op = "handleBulkUpload" /\ FewerThanTwoLines(csvText)) => people' = people]_vars

C6_Witness ==
    /\ last.op = "handleBulkUpload"
    /\ FewerThanTwoLines(csvText)
    /\ Len(csvText) >= 2
    /\ ~IsBlankLine(csvText[1])
    /\ people = SAMPLE_DATA

\* C7 (as claimed): an import of a header line and data lines leaves one record
\* per data line, in line order; record i has header[k] = trimmed value k of
\* line i for exactly the columns k whose value is present and non-empty, plus
\* a freshly generated id.
C7_ImportBuildsRecords ==
    (last.op = "handleBulkUpload" /\ last.imported) =>
        LET lines == SplitLines(csvText)
            headers == SplitTrim(lines[1])
        IN  /\ Len(people) = Len(lines) - 1
            /\ \A i \in 1..Len(people) :
                  LET values == SplitTrim(lines[i + 1])
                      present == {k \in 1..Len(headers) :
                                     k <= Len(values) /\ values[k] # ""}
                  IN  /\ \A k \in present :
                            /\ headers[k] \in DOMAIN people[i]
                            /\ people[i][headers[k]] = values[k]
                      /\ DOMAIN people[i] = {"id"} \cup {headers[k] : k \in present}
                      /\ people[i]["id"] \in {RandomPersonId(n) : n \in 1..personIdsDrawn}

\* C8 (as claimed): no two records of the person table have the same id.
C8_NoIdCollision ==
    \A i, j \in 1..Len(people) : i # j => people[i]["id"] # people[j]["id"]

-----------------------------------------------------------------------------
(* Properties of the field list and the selection *)

\* C9: selectedFieldId is null or the id of a field in the list, and removing
\* the selected field clears the selection.
C9_SelectionIntegrity ==
    /\ selectedFieldId = Null \/ selectedFieldId \in FieldIds(fields)
    /\ (last.op = "removeField" /\ last.wasSelected) => selectedFieldId = Null

C9_Witness ==
    /\ last.op = "removeField"
    /\ last.wasSelected
    /\ last.present
    /\ selectedFieldId = Null
    /\ fields # <<>>

\* C10: updateField and removeField with an id that is not in the field list
\* can always be called, and leave the field list and the selection unchanged.
C10_AbsentIdIsNoOp ==
    /\ [](\A id \in FieldIdPool :
            ENABLED RemoveField(id) /\ ENABLED UpdateField(id, [name |-> ""]))
    /\ [][(last'.op \in {"updateField", "removeField"} /\ ~last'.present)
            => (fields' = fields /\ selectedFieldId' = selectedFieldId)]_vars

C10_Witness ==
    /\ last.op \in {"updateField", "removeField"}
    /\ ~last.present
    /\ last.id = "zz"
    /\ fields # <<>>
    /\ selectedFieldId # Null

-----------------------------------------------------------------------------
(* The export and the edits made while it is pending *)

\* a run has been started and generatePDF has not reached its loop yet
RunPending == run.pc \in {"timer", "script"}

\* every input of a run can be edited while the run waits for its timer or for
\* the script; doc.save and the setLoading(false) that follows it are one task
NoSave == run.pc # "saved"

NextEdits ==
    \/ NoSave /\ \E h \in DimensionInputs : SetConfigHeight(h)
    \/ NoSave /\ \E id \in FieldIds(fields) : RemoveField(id)
    \/ NoSave /\ HandleFileUpload("front", "data:imgB")
    \/ NoSave /\ \E k \in 1..Len(reads) : ReaderOnload(k)
    \/ NoSave /\ \E id \in PersonIds(people) : DeletePerson(id)
    \/ HandleGenerate
    \/ TimerFires
    \/ ScriptOnload
    \/ GenerateReturns

SpecEdits == Init /\ [][NextEdits]_vars

\* the template uploads alone: files are chosen for either side while earlier
\* reads are still in flight
NextUpload ==
    \/ \E side \in Sides : \E file \in Files : HandleFileUpload(side, file)
    \/ \E k \in 1..Len(reads) : ReaderOnload(k)

SpecUpload == Init /\ [][NextUpload]_vars

\* one drag: the canvas is set up, a rendered field is pressed, the pointer moves
\* any number of times, the button is released
NextDrag ==
    \/ dragState = <<>> /\ last.op # "handleMouseUp" /\ AddField
    \/ dragState = <<>> /\ last.op # "handleMouseUp"
            /\ \E side \in Sides : SetActiveSide(side)
    \/ dragState = <<>> /\ last.op # "handleMouseUp"
            /\ \E w \in DimensionInputs : SetConfigWidth(w)
    \/ dragState = <<>> /\ last.op # "handleMouseUp"
            /\ \E i \in 1..Len(fields) : \E cx, cy \in PointerCoords : HandleMouseDown(i, cx, cy)
    \/ \E cx, cy \in PointerCoords : \E cw \in ClientWidths : HandleMouseMove(cx, cy, cw)
    \/ HandleMouseUp

SpecDrag == Init /\ [][NextDrag]_vars

\* the export under the scheduling the browser guarantees: a timer that was set
\* fires, a script that loaded runs its onload, an await whose promise settled
\* resumes.  The design and the table are edited whenever no run is on its way,
\* also after a run has thrown or has been left waiting for the script.
NoRunLeft == run.pc \in {"idle", "threw", "stalled"}

NextLive ==
    \/ NoRunLeft /\ \E id \in FieldIds(fields) : UpdateField(id, [name |-> "constructor"])
    \/ NoRunLeft /\ \E id \in FieldIds(fields) : RemoveField(id)
    \/ NoRunLeft /\ \E id \in PersonIds(people) : DeletePerson(id)
    \/ HandleGenerate
    \/ TimerFires
    \/ ScriptOnload
    \/ ScriptError
    \/ GenerateReturns

SpecLive ==
    /\ Init
    /\ [][NextLive]_vars
    /\ WF_vars(TimerFires)
    /\ WF_vars(ScriptOnload)
    /\ WF_vars(GenerateReturns)

\* C11: an export is only started while the table is non-empty, and the list
\* the merge loop iterates over (the one generatePDF closed over) is never
\* empty, also when the table is cleared between the click and the loop.
C11_MergedListNeverEmpty ==
    /\ last.op = "handleGenerate" => Len(people) # 0
    /\ (RunPending \/ Saved) => Len(run.snap.people) # 0
    /\ Saved => PagesOf(1, "front") # {}

\* the table was cleared after the click and the document was saved all the same
C11_Witness == Saved /\ people = <<>> /\ Len(SavedPages) >= 1

\* C12: a run works on the config, fields, people and templates of the moment
\* of the click: the saved document is the merge of exactly those, whatever was
\* edited while the run waited for its timer or for the script.
C12_RunSeesClickTimeInputs ==
    /\ last.op = "handleGenerate" => run.snap = Snapshot
    /\ Saved => SavedPages = Merge(run.snap)

\* a document was saved after all four inputs were edited during the run
C12_Witness ==
    /\ Saved
    /\ config # run.snap.config
    /\ fields # run.snap.fields
    /\ people # run.snap.people
    /\ templates # run.snap.templates
    /\ SavedPages # Merge(Snapshot)

-----------------------------------------------------------------------------
(* The order of the pages *)

\* pages per person in the saved document
PagesPerCard == IF BackContent(run.snap) THEN 2 ELSE 1

\* the person and the side that page p of the saved document belongs to
CardOfPage(p) == ((p - 1) \div PagesPerCard) + 1
SideOfPage(p) == IF PagesPerCard = 2 /\ p % 2 = 0 THEN "back" ELSE "front"

\* C13: the pages come person by person in table order, a person's front
\* directly followed by that person's back (when one is emitted) and then by
\* the next person's front; page 1 is the first person's front, and no blank
\* page comes before, between or after them.
C13_PagesInCardOrder ==
    Saved =>
        /\ Len(SavedPages) = PagesPerCard * Len(run.snap.people)
        /\ \A p \in 1..Len(SavedPages) :
              /\ SavedPages[p].side = SideOfPage(p)
              /\ SavedPages[p].person = CardOfPage(p)
              /\ SavedPages[p].runs =
                    TextRuns(run.snap.people[CardOfPage(p)], run.snap.fields, SideOfPage(p))
              /\ SavedPages[p].bg = Background(run.snap.templates[SideOfPage(p)])

\* two or more people with fronts and backs, whose texts tell the pages apart
C13_Witness ==
    /\ Saved
    /\ Len(run.snap.people) >= 2
    /\ PagesPerCard = 2
    /\ SavedPages[1].runs # SavedPages[3].runs
    /\ SavedPages[1].runs # SavedPages[2].runs
    /\ SavedPages[2].side = "back" /\ SavedPages[3].side = "front"

-----------------------------------------------------------------------------
(* Termination of the export *)

\* C14: every export that is started completes: after the click the document
\* is eventually saved, and the button's loading state is eventually reset.
C14_EveryRunCompletes ==
    /\ (run.pc = "timer") ~> Saved
    /\ loading ~> ~loading

-----------------------------------------------------------------------------
(* Dragging *)

\* the field the drag is about
DraggedField == fields[CHOOSE i \in 1..Len(fields) : fields[i].id = dragState[1].id]

\* r (tenths of a mm) is a whole number of mm and the one nearest to
\* init + dPx / pixelsPerMm, pixelsPerMm = clientWidth / widthMm, halves going up
\* (config.width, kept in tenths of a cm, is the card width in mm)
NearestWholeMm(r, init, dPx, clientWidth, widthMm) ==
    /\ r % 10 = 0
    /\ r * clientWidth <= init * clientWidth + dPx * widthMm * 10 + 5 * clientWidth
    /\ init * clientWidth + dPx * widthMm * 10 + 5 * clientWidth < (r + 10) * clientWidth

\* the last step was a pointer move of a drag
Moved == last.op = "updateField" /\ "clientX" \in DOMAIN last /\ dragState # <<>>

-----------------------------------------------------------------------------
(* Template uploads *)

\* no read for this side is in flight
ReadsDone(side) == \A k \in 1..Len(reads) : reads[k].side # side

\* C16: once the reads started for a side have all completed, the template of
\* that side is the file that was chosen last for it, whatever the order in
\* which the reads finished.
C16_LastChosenFileWins ==
    \A side \in Sides :
        (ReadsDone(side) /\ fileInputs[side] # Null) => templates[side] = fileInputs[side]

\* the second half of C16: a read completing for one side leaves the template
\* of the other side as it was
C16_OtherSideUntouched ==
    [][last'.op = "reader.onload" =>
        \A side \in Sides : side # last'.side => templates'[side] = templates[side]]_vars

=============================================================================
